---------------------------- MODULE Spec2Model ----------------------------
(***************************************************************************)
(* A model of ticktock.py: a script that times POST requests carrying a    *)
(* valid and an invalid user name against one endpoint and compares the    *)
(* ratio StartTransferTime / TotalTime of the two classes.                 *)
(*                                                                         *)
(* The script is one sequential thread of control.  pc is the statement    *)
(* about to run; every statement of the module level (lines 92-135) is one *)
(* action.  The blocking call curl.perform() (line 68) is split into the   *)
(* moment the request is put on the wire and the moment it returns or      *)
(* raises, so that "a request is in flight" is a state of the model.       *)
(*                                                                         *)
(* Times.  pycurl reports floats in seconds.  A raw time is modelled as an *)
(* integer number of 1/Grid seconds, a rounded time as an integer number   *)
(* of 10^-MaxPrec seconds.  round(x, precision) is Python 3's: to the      *)
(* nearest multiple of 10^-precision, a tie going to the even neighbour.   *)
(* A quotient of two rounded times and a mean of quotients are modelled as *)
(* exact fractions in lowest terms (statistics.mean sums exact fractions); *)
(* the last-bit error of a float is not modelled.                          *)
(*                                                                         *)
(* An optional value (a Python name that is unbound or None) is modelled   *)
(* as a sequence of length 0 or 1.                                         *)
(***************************************************************************)
EXTENDS Integers, Sequences, FiniteSets

VARIABLES
    args,               \* argparse.Namespace returned by parse_args (line 39)
    pc,                 \* the statement about to run
    i,                  \* loop variable of line 94 (trials completed so far)
    valid_handle,       \* line 97
    valid_results,      \* line 98
    invalid_handle,     \* line 101
    invalid_results,    \* line 102
    metrics,            \* line 92
    y_axis_valid,       \* line 111
    y_axis_invalid,     \* line 112
    mean_valid,         \* statistics.mean(y_axis_valid), line 114
    mean_invalid,       \* statistics.mean(y_axis_invalid), line 115
    sink,               \* what plt.plot received (lines 127-128)
    error,              \* the uncaught exception that ended the run, or "none"
    wire                \* the network: every request put on the wire, in order

vars == << args, pc, i, valid_handle, valid_results, invalid_handle,
           invalid_results, metrics, y_axis_valid, y_axis_invalid,
           mean_valid, mean_invalid, sink, error, wire >>

---------------------------------------------------------------------------
(* Bounds of the model.                                                    *)

\* Largest --attempts explored.
MaxAttempts == 2
\* Largest --precision explored.
MaxPrec == 1
\* Raw times are multiples of 1/Grid seconds.
Grid == 2
\* Largest raw total time (in 1/Grid s) the transport reports during a run.
MaxTotal == 1
\* Largest duration (in 1/Grid s) of one stage of a request in SpecExtract.
MaxStage == 2

---------------------------------------------------------------------------
(* Values.                                                                 *)

None == "None"
NoValue == << >>
Some(v) == << v >>

RECURSIVE Pow10(_)
Pow10(n) == IF n = 0 THEN 1 ELSE 10 * Pow10(n - 1)

RECURSIVE GCD(_, _)
GCD(a, b) == IF b = 0 THEN a ELSE GCD(b, a % b)

\* The fraction n/d (d > 0, n >= 0) in lowest terms.
Frac(n, d) == LET g == GCD(n, d) IN [num |-> n \div g, den |-> d \div g]

FracAdd(a, b) == Frac(a.num * b.den + b.num * a.den, a.den * b.den)

\* n/d rounded to the nearest integer, a tie going to the even neighbour.
RoundHalfEven(n, d) ==
    LET q == n \div d
        r == n % d
    IN  IF 2 * r < d THEN q
        ELSE IF 2 * r > d THEN q + 1
        ELSE IF q % 2 = 0 THEN q ELSE q + 1

\* round(x, precision) for x = raw/Grid seconds, in units of 10^-MaxPrec s.
round(raw, precision) ==
    RoundHalfEven(raw * Pow10(precision), Grid) * Pow10(MaxPrec - precision)

---------------------------------------------------------------------------
(* The transport (libcurl behind pycurl).                                  *)

\* The stage times libcurl can report for one completed transfer, each
\* cumulative from the start of the request.  APPCONNECT_TIME is 0 when no
\* SSL/TLS handshake took place (tls = FALSE).  md, mc, ms, mw, mb bound the
\* durations of the name lookup, the TCP connect, the TLS handshake, the
\* wait for the first byte and the body.
StageTimes(md, mc, ms, mw, mb) ==
    { [ NAMELOOKUP_TIME    |-> d,
        CONNECT_TIME       |-> d + c,
        APPCONNECT_TIME    |-> IF tls THEN d + c + s ELSE 0,
        STARTTRANSFER_TIME |-> d + c + (IF tls THEN s ELSE 0) + w,
        TOTAL_TIME         |-> d + c + (IF tls THEN s ELSE 0) + w + b ] :
      d \in 0..md, c \in 0..mc, tls \in BOOLEAN, s \in 0..ms,
      w \in 0..mw, b \in 0..mb }

\* What the transport reports during a run: an endpoint whose connection
\* set-up is below the timer's resolution, and a total of at most MaxTotal.
RunTimes == { t \in StageTimes(0, 0, 0, MaxTotal, MaxTotal) : t.TOTAL_TIME <= MaxTotal }

\* What the transport reports in SpecExtract: every stage up to MaxStage.
AllTimes == StageTimes(MaxStage, MaxStage, MaxStage, MaxStage, MaxStage)

\* Faulty variant of Issue: the transfer is performed twice for one call.
Issue_Twice(w, cls, trial) ==
    Append(Append(w, [cls |-> cls, trial |-> trial, status |-> "ok"]),
           [cls |-> cls, trial |-> trial, status |-> "inflight"])

\* A request put on the wire by curl.perform() (line 68).
Issue(w, cls, trial) == Append(w, [cls |-> cls, trial |-> trial, status |-> "inflight"])

\* curl.perform() blocks until the transfer has ended (line 68).
Complete(w, status) == [w EXCEPT ![Len(w)].status = status]

InFlight == { k \in 1..Len(wire) : wire[k].status = "inflight" }

---------------------------------------------------------------------------
(* The functions of the script.                                            *)

\* Faulty variant of Raise: the exception is caught and the loop goes on.
Raise_Swallowed(e) == pc' = "for" /\ error' = e

\* An uncaught exception at module level ends the script.
Raise(e) == pc' = "aborted" /\ error' = e

\* send_request up to the moment curl.perform() has put the request on the
\* wire (lines 57-68).  What pycurl does with a None target or data (lines
\* 65, 66) is not decided by the script: either setopt rejects None with a
\* TypeError, or it takes None as "unset"; then a request without a URL
\* fails in curl.perform() before anything is sent, and a request without
\* POST data is sent.
send_request(target, data, cls, next) ==
    \E accepted \in BOOLEAN :
        IF (target = None \/ data = None) /\ ~ accepted
        THEN Raise("TypeError") /\ UNCHANGED wire
        ELSE IF target = None
        THEN Raise("pycurl.error") /\ UNCHANGED wire
        ELSE /\ wire' = Issue(wire, cls, i + 1)
             /\ pc' = next
             /\ UNCHANGED error

\* extract_timings (lines 73-90).  req is the identity of the handle the
\* record was read from: the number of its request on the wire.
extract_timings(request, precision) ==
    [ DNSLookup         |-> round(request.info.NAMELOOKUP_TIME, precision),
      TCPConnectionTime |-> round(request.info.CONNECT_TIME, precision),
      AppConnectionTine |-> round(request.info.APPCONNECT_TIME, precision),
      StartTransferTime |-> round(request.info.STARTTRANSFER_TIME, precision),
      TotalTime         |-> round(request.info.TOTAL_TIME, precision),
      req               |-> request.req ]

\* Faulty variant of LoopContinues: the loop stops one trial early.
LoopContinues_OffByOne(idx, n) == idx + 1 < n

\* range(args.attempts) has a next element (line 94).
LoopContinues(idx, n) == idx < n

\* Faulty variant of Ratios: the signals come out in reverse order.
RECURSIVE Ratios_Reversed(_)
Ratios_Reversed(series) ==
    IF series = << >> THEN << >>
    ELSE Ratios_Reversed(Tail(series))
         \o << Frac(Head(series).StartTransferTime, Head(series).TotalTime) >>

\* The list comprehension of lines 111 and 112, in iteration order.
RECURSIVE Ratios(_)
Ratios(series) ==
    IF series = << >> THEN << >>
    ELSE << Frac(Head(series).StartTransferTime, Head(series).TotalTime) >>
         \o Ratios(Tail(series))

\* The comprehension raises ZeroDivisionError at a record whose TotalTime is 0.
HasZeroTotal(series) == \E k \in 1..Len(series) : series[k].TotalTime = 0

RECURSIVE SumFrac(_)
SumFrac(s) == IF s = << >> THEN Frac(0, 1) ELSE FracAdd(Head(s), SumFrac(Tail(s)))

\* statistics.mean of a non-empty list (lines 114, 115).
Mean(s) == LET t == SumFrac(s) IN Frac(t.num, t.den * Len(s))

---------------------------------------------------------------------------
(* The script, statement by statement.                                     *)

Targets == {None, "url"}
Posts == {None, "data"}

Init ==
    /\ args \in [ target : Targets, valid_post : Posts, invalid_post : Posts,
                  attempts : 0..MaxAttempts, precision : 0..MaxPrec ]
    /\ pc = "parse_args"
    /\ i = 0
    /\ valid_handle = NoValue
    /\ valid_results = NoValue
    /\ invalid_handle = NoValue
    /\ invalid_results = NoValue
    /\ metrics = [valid |-> << >>, invalid |-> << >>]
    /\ y_axis_valid = NoValue
    /\ y_axis_invalid = NoValue
    /\ mean_valid = NoValue
    /\ mean_invalid = NoValue
    /\ sink = NoValue
    /\ error = "none"
    /\ wire = << >>

\* Lines 32-39 and 92: no argument is declared required and --attempts is any
\* int, so parse_args accepts every command line of Init.
ParseArgs ==
    /\ pc = "parse_args"
    /\ pc' = "for"
    /\ UNCHANGED << args, i, valid_handle, valid_results, invalid_handle,
                    invalid_results, metrics, y_axis_valid, y_axis_invalid,
                    mean_valid, mean_invalid, sink, error, wire >>

\* Line 94.
For ==
    /\ pc = "for"
    /\ pc' = IF LoopContinues(i, args.attempts) THEN "valid_send" ELSE "derive_valid"
    /\ UNCHANGED << args, i, valid_handle, valid_results, invalid_handle,
                    invalid_results, metrics, y_axis_valid, y_axis_invalid,
                    mean_valid, mean_invalid, sink, error, wire >>

\* Line 97, up to the request being on the wire.
SendValid ==
    /\ pc = "valid_send"
    /\ send_request(args.target, args.valid_post, "valid", "valid_perform")
    /\ UNCHANGED << args, i, valid_handle, valid_results, invalid_handle,
                    invalid_results, metrics, y_axis_valid, y_axis_invalid,
                    mean_valid, mean_invalid, sink >>

\* Line 97: curl.perform() returns and send_request returns the handle.
PerformValidReturns ==
    /\ pc = "valid_perform"
    /\ \E t \in RunTimes :
         valid_handle' = Some([info |-> t, req |-> Len(wire), closed |-> FALSE])
    /\ wire' = Complete(wire, "ok")
    /\ pc' = "valid_extract"
    /\ UNCHANGED << args, i, valid_results, invalid_handle, invalid_results,
                    metrics, y_axis_valid, y_axis_invalid, mean_valid,
                    mean_invalid, sink, error >>

\* Line 97: curl.perform() raises pycurl.error.
PerformValidRaises ==
    /\ pc = "valid_perform"
    /\ wire' = Complete(wire, "failed")
    /\ Raise("pycurl.error")
    /\ UNCHANGED << args, i, valid_handle, valid_results, invalid_handle,
                    invalid_results, metrics, y_axis_valid, y_axis_invalid,
                    mean_valid, mean_invalid, sink >>

\* Line 98.
ExtractValid ==
    /\ pc = "valid_extract"
    /\ valid_results' = Some(extract_timings(valid_handle[1], args.precision))
    /\ pc' = "valid_close"
    /\ UNCHANGED << args, i, valid_handle, invalid_handle, invalid_results,
                    metrics, y_axis_valid, y_axis_invalid, mean_valid,
                    mean_invalid, sink, error, wire >>

\* Line 99.
CloseValid ==
    /\ pc = "valid_close"
    /\ valid_handle' = Some([valid_handle[1] EXCEPT !.closed = TRUE])
    /\ pc' = "invalid_send"
    /\ UNCHANGED << args, i, valid_results, invalid_handle, invalid_results,
                    metrics, y_axis_valid, y_axis_invalid, mean_valid,
                    mean_invalid, sink, error, wire >>

\* Faulty variant of SendInvalid: line 101 posts args.valid_post again.
SendInvalid_ValidPayload ==
    /\ pc = "invalid_send"
    /\ send_request(args.target, args.valid_post, "valid", "invalid_perform")
    /\ UNCHANGED << args, i, valid_handle, valid_results, invalid_handle,
                    invalid_results, metrics, y_axis_valid, y_axis_invalid,
                    mean_valid, mean_invalid, sink >>

\* Line 101, up to the request being on the wire.
SendInvalid ==
    /\ pc = "invalid_send"
    /\ send_request(args.target, args.invalid_post, "invalid", "invalid_perform")
    /\ UNCHANGED << args, i, valid_handle, valid_results, invalid_handle,
                    invalid_results, metrics, y_axis_valid, y_axis_invalid,
                    mean_valid, mean_invalid, sink >>

\* Line 101: curl.perform() returns and send_request returns the handle.
PerformInvalidReturns ==
    /\ pc = "invalid_perform"
    /\ \E t \in RunTimes :
         invalid_handle' = Some([info |-> t, req |-> Len(wire), closed |-> FALSE])
    /\ wire' = Complete(wire, "ok")
    /\ pc' = "invalid_extract"
    /\ UNCHANGED << args, i, valid_handle, valid_results, invalid_results,
                    metrics, y_axis_valid, y_axis_invalid, mean_valid,
                    mean_invalid, sink, error >>

\* Line 101: curl.perform() raises pycurl.error.
PerformInvalidRaises ==
    /\ pc = "invalid_perform"
    /\ wire' = Complete(wire, "failed")
    /\ Raise("pycurl.error")
    /\ UNCHANGED << args, i, valid_handle, valid_results, invalid_handle,
                    invalid_results, metrics, y_axis_valid, y_axis_invalid,
                    mean_valid, mean_invalid, sink >>

\* Line 102.
ExtractInvalid ==
    /\ pc = "invalid_extract"
    /\ invalid_results' = Some(extract_timings(invalid_handle[1], args.precision))
    /\ pc' = "invalid_close"
    /\ UNCHANGED << args, i, valid_handle, valid_results, invalid_handle,
                    metrics, y_axis_valid, y_axis_invalid, mean_valid,
                    mean_invalid, sink, error, wire >>

\* Lines 103 and 105.
CloseInvalid ==
    /\ pc = "invalid_close"
    /\ invalid_handle' = Some([invalid_handle[1] EXCEPT !.closed = TRUE])
    /\ pc' = "append_valid"
    /\ UNCHANGED << args, i, valid_handle, valid_results, invalid_results,
                    metrics, y_axis_valid, y_axis_invalid, mean_valid,
                    mean_invalid, sink, error, wire >>

\* Line 107.
AppendValid ==
    /\ pc = "append_valid"
    /\ metrics' = [metrics EXCEPT !.valid = Append(@, valid_results[1])]
    /\ pc' = "append_invalid"
    /\ UNCHANGED << args, i, valid_handle, valid_results, invalid_handle,
                    invalid_results, y_axis_valid, y_axis_invalid, mean_valid,
                    mean_invalid, sink, error, wire >>

\* Faulty variant of AppendInvalid: line 108 appends to metrics['valid'].
AppendInvalid_WrongKey ==
    /\ pc = "append_invalid"
    /\ metrics' = [metrics EXCEPT !.valid = Append(@, invalid_results[1])]
    /\ i' = i + 1
    /\ pc' = "for"
    /\ UNCHANGED << args, valid_handle, valid_results, invalid_handle,
                    invalid_results, y_axis_valid, y_axis_invalid, mean_valid,
                    mean_invalid, sink, error, wire >>

\* Line 108, and the end of the loop body.
AppendInvalid ==
    /\ pc = "append_invalid"
    /\ metrics' = [metrics EXCEPT !.invalid = Append(@, invalid_results[1])]
    /\ i' = i + 1
    /\ pc' = "for"
    /\ UNCHANGED << args, valid_handle, valid_results, invalid_handle,
                    invalid_results, y_axis_valid, y_axis_invalid, mean_valid,
                    mean_invalid, sink, error, wire >>

\* Line 111.
DeriveValid ==
    /\ pc = "derive_valid"
    /\ IF HasZeroTotal(metrics.valid)
       THEN Raise("ZeroDivisionError") /\ UNCHANGED y_axis_valid
       ELSE /\ y_axis_valid' = Some(Ratios(metrics.valid))
            /\ pc' = "derive_invalid"
            /\ UNCHANGED error
    /\ UNCHANGED << args, i, valid_handle, valid_results, invalid_handle,
                    invalid_results, metrics, y_axis_invalid, mean_valid,
                    mean_invalid, sink, wire >>

\* Line 112.
DeriveInvalid ==
    /\ pc = "derive_invalid"
    /\ IF HasZeroTotal(metrics.invalid)
       THEN Raise("ZeroDivisionError") /\ UNCHANGED y_axis_invalid
       ELSE /\ y_axis_invalid' = Some(Ratios(metrics.invalid))
            /\ pc' = "mean_valid"
            /\ UNCHANGED error
    /\ UNCHANGED << args, i, valid_handle, valid_results, invalid_handle,
                    invalid_results, metrics, y_axis_valid, mean_valid,
                    mean_invalid, sink, wire >>

\* Line 114: statistics.mean raises StatisticsError on an empty list.
MeanValid ==
    /\ pc = "mean_valid"
    /\ IF Len(y_axis_valid[1]) < 1
       THEN Raise("StatisticsError") /\ UNCHANGED mean_valid
       ELSE /\ mean_valid' = Some(Mean(y_axis_valid[1]))
            /\ pc' = "mean_invalid"
            /\ UNCHANGED error
    /\ UNCHANGED << args, i, valid_handle, valid_results, invalid_handle,
                    invalid_results, metrics, y_axis_valid, y_axis_invalid,
                    mean_invalid, sink, wire >>

\* Line 115.
MeanInvalid ==
    /\ pc = "mean_invalid"
    /\ IF Len(y_axis_invalid[1]) < 1
       THEN Raise("StatisticsError") /\ UNCHANGED mean_invalid
       ELSE /\ mean_invalid' = Some(Mean(y_axis_invalid[1]))
            /\ pc' = "plot"
            /\ UNCHANGED error
    /\ UNCHANGED << args, i, valid_handle, valid_results, invalid_handle,
                    invalid_results, metrics, y_axis_valid, y_axis_invalid,
                    mean_valid, sink, wire >>

\* Lines 118-135: the two series and the x axis are handed to matplotlib.
Plot ==
    /\ pc = "plot"
    /\ sink' = Some([ x_axis  |-> [k \in 1..args.attempts |-> k],
                      valid   |-> y_axis_valid[1],
                      invalid |-> y_axis_invalid[1] ])
    /\ pc' = "done"
    /\ UNCHANGED << args, i, valid_handle, valid_results, invalid_handle,
                    invalid_results, metrics, y_axis_valid, y_axis_invalid,
                    mean_valid, mean_invalid, error, wire >>

Next ==
    \/ ParseArgs
    \/ For
    \/ SendValid
    \/ PerformValidReturns
    \/ PerformValidRaises
    \/ ExtractValid
    \/ CloseValid
    \/ SendInvalid
    \/ PerformInvalidReturns
    \/ PerformInvalidRaises
    \/ ExtractInvalid
    \/ CloseInvalid
    \/ AppendValid
    \/ AppendInvalid
    \/ DeriveValid
    \/ DeriveInvalid
    \/ MeanValid
    \/ MeanInvalid
    \/ Plot

Spec == Init /\ [][Next]_vars

---------------------------------------------------------------------------
(* extract_timings alone: the state after the first valid request of a run *)
(* has returned, for every set of stage times up to MaxStage.              *)

InitExtract ==
    /\ args \in [ target : {"url"}, valid_post : {"data"}, invalid_post : {"data"},
                  attempts : 1..MaxAttempts, precision : 0..MaxPrec ]
    /\ pc = "valid_extract"
    /\ i = 0
    /\ \E t \in AllTimes :
         valid_handle = Some([info |-> t, req |-> 1, closed |-> FALSE])
    /\ valid_results = NoValue
    /\ invalid_handle = NoValue
    /\ invalid_results = NoValue
    /\ metrics = [valid |-> << >>, invalid |-> << >>]
    /\ y_axis_valid = NoValue
    /\ y_axis_invalid = NoValue
    /\ mean_valid = NoValue
    /\ mean_invalid = NoValue
    /\ sink = NoValue
    /\ error = "none"
    /\ wire = << [cls |-> "valid", trial |-> 1, status |-> "ok"] >>

NextExtract == ExtractValid

SpecExtract == InitExtract /\ [][NextExtract]_vars

---------------------------------------------------------------------------
(* Vocabulary of the properties.                                           *)

\* The sampling loop has ended by exhausting range(args.attempts).
LoopEnded ==
    \/ pc \in {"derive_valid", "derive_invalid", "mean_valid", "mean_invalid",
               "plot", "done"}
    \/ pc = "aborted" /\ error \in {"ZeroDivisionError", "StatisticsError"}

\* A request has failed in the transport.
RequestFailed == \E k \in 1..Len(wire) : wire[k].status = "failed"

\* The request issued k-th in a run of interleaved trials.
ClassOf(k) == IF k % 2 = 1 THEN "valid" ELSE "invalid"
TrialOf(k) == (k + 1) \div 2

\* A required argument was not given on the command line.
MissingRequired ==
    args.target = None \/ args.valid_post = None \/ args.invalid_post = None

\* No part of the reduction (lines 111-135) has run.
NothingReduced ==
    /\ y_axis_valid = NoValue
    /\ y_axis_invalid = NoValue
    /\ mean_valid = NoValue
    /\ mean_invalid = NoValue
    /\ sink = NoValue

---------------------------------------------------------------------------
(* C1 *)

\* C1: with attempts = N >= 1 and no failed request, when the sampling loop
\* has ended each series holds exactly N records, and the record at index k
\* (1-based) of a series was read from the handle of that class's request of
\* trial k: request number 2k-1 on the wire for the valid series, 2k for the
\* invalid series.
C1_SeriesLengthAndOrder ==
    (LoopEnded /\ args.attempts >= 1) =>
        /\ Len(metrics.valid) = args.attempts
        /\ Len(metrics.invalid) = args.attempts
        /\ \A k \in 1..args.attempts :
             /\ metrics.valid[k].req = 2 * k - 1
             /\ wire[metrics.valid[k].req] =
                    [cls |-> "valid", trial |-> k, status |-> "ok"]
             /\ metrics.invalid[k].req = 2 * k
             /\ wire[metrics.invalid[k].req] =
                    [cls |-> "invalid", trial |-> k, status |-> "ok"]

C1_Witness ==
    /\ pc = "derive_valid"
    /\ args.attempts = 2
    /\ Len(metrics.valid) = 2
    /\ Len(metrics.invalid) = 2

---------------------------------------------------------------------------
(* C2 *)

\* C2: requests are strictly sequential and interleaved by class: at most
\* one request is in flight, every request but the last one issued has
\* completed successfully, and the k-th request issued is the valid request
\* of trial (k+1)/2 when k is odd and the invalid request of trial k/2 when k
\* is even, so no two consecutive requests are of the same class.
C2_SequentialInterleaved ==
    /\ Cardinality(InFlight) <= 1
    /\ \A k \in 1..Len(wire) :
         /\ wire[k].cls = ClassOf(k)
         /\ wire[k].trial = TrialOf(k)
         /\ k < Len(wire) => wire[k].status = "ok"
    /\ \A k \in 1..(Len(wire) - 1) : wire[k].cls # wire[k + 1].cls

C2_Witness ==
    /\ Len(wire) = 3
    /\ wire[3] = [cls |-> "valid", trial |-> 2, status |-> "inflight"]
    /\ wire[2] = [cls |-> "invalid", trial |-> 1, status |-> "ok"]

---------------------------------------------------------------------------
(* C3 *)

\* C3: once a request has failed the run has terminated with pycurl's error,
\* the failed request is the last one ever issued, and neither the signal
\* derivation, the means nor the plot has run or can run: no step is enabled.
C3_FailureAbortsRun ==
    RequestFailed =>
        /\ pc = "aborted"
        /\ error = "pycurl.error"
        /\ wire[Len(wire)].status = "failed"
        /\ Cardinality({k \in 1..Len(wire) : wire[k].status = "failed"}) = 1
        /\ NothingReduced
        /\ ~ ENABLED Next

C3_Witness ==
    /\ RequestFailed
    /\ wire[Len(wire)].trial = 2
    /\ Len(metrics.valid) = 1

---------------------------------------------------------------------------
(* C4 *)

\* C4: wherever a request is about to be issued or is in flight, and
\* wherever the run has ended (normally or by an exception), the two series
\* have the same length, which is the number of completed trials; a failed
\* invalid request leaves no valid record appended alone.
C4_SeriesEqualLength ==
    pc \in {"valid_send", "valid_perform", "invalid_send", "invalid_perform",
            "aborted", "done"} =>
        /\ Len(metrics.valid) = Len(metrics.invalid)
        /\ Len(metrics.valid) = i
        /\ i = Cardinality({k \in 1..Len(wire) :
                              wire[k].cls = "invalid" /\ wire[k].status = "ok"})

C4_Witness ==
    /\ pc = "aborted"
    /\ RequestFailed
    /\ wire[Len(wire)].cls = "invalid"
    /\ wire[Len(wire)].trial = 2
    /\ Len(metrics.valid) = 1
    /\ Len(metrics.invalid) = 1

---------------------------------------------------------------------------
(* C5 *)

\* C5: a run with attempts = 0 (all required arguments given) is rejected
\* as a configuration error: it sends no request, no step of the reduction
\* (signal derivation, mean, plot) ever runs on its empty series, and if it
\* ends by an error that error is the configuration error.
C5_ZeroAttemptsRejected ==
    (args.attempts = 0 /\ ~ MissingRequired) =>
        /\ wire = << >>
        /\ NothingReduced
        /\ pc # "mean_valid"
        /\ pc = "aborted" => error = "ConfigError"

---------------------------------------------------------------------------
(* C6 *)

\* C6: deriving the signal series never ends in a division error, whatever
\* TotalTime the records hold (0 included, and a non-zero raw total that
\* rounds to 0).
C6_DeriveGuarded == ~ MissingRequired => error # "ZeroDivisionError"

---------------------------------------------------------------------------
(* C7 *)

\* C7: when a required argument is missing the run fails at argument
\* parsing, before any network request; stated for the case the claim singles
\* out: with invalid_post missing (target and valid_post given) no request,
\* and so not the valid request of trial 1, is ever put on the wire.
C7_MissingArgumentFailsFast ==
    (args.invalid_post = None /\ args.target # None /\ args.valid_post # None) =>
        wire = << >>

---------------------------------------------------------------------------
(* C8 *)

\* C8: every record extract_timings returns has five non-negative fields with
\* DNSLookup <= TCPConnectionTime <= AppConnectionTine <= StartTransferTime
\* <= TotalTime.
C8_StagesMonotone ==
    valid_results # NoValue =>
        LET r == valid_results[1] IN
        /\ 0 <= r.DNSLookup
        /\ r.DNSLookup <= r.TCPConnectionTime
        /\ r.TCPConnectionTime <= r.AppConnectionTine
        /\ r.AppConnectionTine <= r.StartTransferTime
        /\ r.StartTransferTime <= r.TotalTime

---------------------------------------------------------------------------
(* C9 *)

RECURSIVE C9_ProdDen(_)
C9_ProdDen(s) == IF s = << >> THEN 1 ELSE Head(s).den * C9_ProdDen(Tail(s))

RECURSIVE C9_ScaledSum(_, _)
C9_ScaledSum(s, p) ==
    IF s = << >> THEN 0
    ELSE Head(s).num * (p \div Head(s).den) + C9_ScaledSum(Tail(s), p)

\* m is the arithmetic mean of the fractions of s: m * Len(s) = sum of s.
C9_IsMeanOf(m, s) ==
    LET p == C9_ProdDen(s) IN
    /\ m.den > 0
    /\ m.num * Len(s) * p = C9_ScaledSum(s, p) * m.den

\* signals is the signal series of series: same length, and signal k is
\* StartTransferTime / TotalTime of record k.
C9_IsSignalsOf(signals, series) ==
    /\ Len(signals) = Len(series)
    /\ \A k \in 1..Len(series) :
         /\ signals[k].den > 0
         /\ signals[k].num * series[k].TotalTime =
                series[k].StartTransferTime * signals[k].den

\* C9: each derived signal series has the length and order of its source
\* series, signal k being StartTransferTime / TotalTime of record k, and each
\* reported mean is the arithmetic mean of exactly those signals; with one
\* attempt the mean is the single signal.
C9_SignalsAndMeans ==
    /\ y_axis_valid # NoValue => C9_IsSignalsOf(y_axis_valid[1], metrics.valid)
    /\ y_axis_invalid # NoValue => C9_IsSignalsOf(y_axis_invalid[1], metrics.invalid)
    /\ mean_valid # NoValue =>
         /\ C9_IsMeanOf(mean_valid[1], y_axis_valid[1])
         /\ args.attempts = 1 => mean_valid[1] = y_axis_valid[1][1]
    /\ mean_invalid # NoValue =>
         /\ C9_IsMeanOf(mean_invalid[1], y_axis_invalid[1])
         /\ args.attempts = 1 => mean_invalid[1] = y_axis_invalid[1][1]

C9_Witness ==
    /\ mean_invalid # NoValue
    /\ Len(y_axis_valid[1]) = 2
    /\ y_axis_valid[1][1] # y_axis_valid[1][2]
    /\ y_axis_invalid[1][1] # y_axis_invalid[1][2]

---------------------------------------------------------------------------
(* C10 *)

\* The calls of send_request that have reached curl.perform(), counted from
\* the position of the script.
C10_CallsPerformed ==
    2 * i + (IF pc \in {"valid_perform", "valid_extract", "valid_close",
                        "invalid_send"} THEN 1
             ELSE IF pc \in {"invalid_perform", "invalid_extract",
                             "invalid_close", "append_valid", "append_invalid"}
                  THEN 2 ELSE 0)

\* C10: every call of send_request that reaches curl.perform() puts exactly
\* one request on the wire; a run of N attempts whose loop ends has issued
\* exactly 2N requests, N of each class; a run whose k-th request fails has
\* issued exactly k requests.
C10_RequestCount ==
    /\ pc # "aborted" => Len(wire) = C10_CallsPerformed
    /\ LoopEnded =>
         /\ Len(wire) = 2 * args.attempts
         /\ Cardinality({k \in 1..Len(wire) : wire[k].cls = "valid"}) = args.attempts
         /\ Cardinality({k \in 1..Len(wire) : wire[k].cls = "invalid"}) = args.attempts
    /\ RequestFailed =>
         LET last == wire[Len(wire)] IN
         /\ last.status = "failed"
         /\ Len(wire) = 2 * i + (IF last.cls = "valid" THEN 1 ELSE 2)

C10_Witness ==
    /\ RequestFailed
    /\ Len(wire) = 4
    /\ args.attempts = 2

=============================================================================
